---- MODULE Spec2Model ----
(***************************************************************************)
(* Model of usimd/setup-xc-action: the `run` orchestrator of src/main.ts   *)
(* and its helpers (isPackageInstalled, installPrerequisites,              *)
(* getDownloadUrl, getCompilerPath, getBinPath).                           *)
(*                                                                         *)
(* Strings are sequences of atoms.  Text that comes from an input (the     *)
(* compiler identifier, the version, a path) is a sequence of one-char     *)
(* atoms, so that toLowerCase, trim, includes and path.join work on it     *)
(* character by character.  A literal chunk of a message or URL template   *)
(* is one atom holding the chunk.                                          *)
(***************************************************************************)
EXTENDS Integers, Sequences, FiniteSets, TLC

\* ------------------------------------------------------------------ bounds

\* Number of distinct values an external call can throw.
NumErrors == 1

\* Number of distinct temporary paths tc.downloadTool can return.
NumTmpPaths == 1

\* Longest text a package query prints, in characters.
MaxStdoutLen == 5

\* Largest exit code of a package query.
MaxExitCode == 1

\* ------------------------------------------------------------------ text

\* String.prototype.toLowerCase, one character.
ToLowerChar(c) ==
    CASE c = "X" -> "x"
      [] c = "C" -> "c"
      [] c = "V" -> "v"
      [] c = "W" -> "w"
      [] c = "S" -> "s"
      [] c = "I" -> "i"
      [] OTHER -> c

\* Mutant: the identifier is compared as written.
ToLowerCase_AsWritten(s) == s

\* String.prototype.toLowerCase.
ToLowerCase(s) == [i \in DOMAIN s |-> ToLowerChar(s[i])]

\* String.prototype.includes: sub occurs in s as a contiguous run.
Includes(s, sub) ==
    \E i \in 0..(Len(s) - Len(sub)) :
        \A j \in 1..Len(sub) : s[i + j] = sub[j]

\* String.prototype.startsWith.
StartsWith(s, pre) ==
    /\ Len(pre) <= Len(s)
    /\ \A j \in 1..Len(pre) : s[j] = pre[j]

\* String.prototype.trim, as core.getInput applies it.
RECURSIVE TrimStart(_)
TrimStart(s) ==
    IF s # <<>> /\ Head(s) = " " THEN TrimStart(Tail(s)) ELSE s

RECURSIVE TrimEnd(_)
TrimEnd(s) ==
    IF s # <<>> /\ s[Len(s)] = " " THEN TrimEnd(SubSeq(s, 1, Len(s) - 1)) ELSE s

Trim(s) == TrimEnd(TrimStart(s))

\* Array.prototype.join: the texts of parts separated by sep.
JoinSeq[parts \in Seq(Seq(STRING)), sep \in Seq(STRING)] ==
    IF parts = <<>> THEN <<>>
    ELSE IF Len(parts) = 1 THEN parts[1]
    ELSE parts[1] \o sep \o JoinSeq[Tail(parts), sep]

JoinWith(parts, sep) == JoinSeq[parts, sep]

\* ------------------------------------------------------------------ path (posix)

\* The segments of a path between its "/" separators (empty ones included).
SplitSlash[s \in Seq(STRING)] ==
    IF \A i \in DOMAIN s : s[i] # "/" THEN <<s>>
    ELSE LET k == CHOOSE i \in DOMAIN s :
                     s[i] = "/" /\ \A j \in 1..(i - 1) : s[j] # "/"
         IN <<SubSeq(s, 1, k - 1)>> \o SplitSlash[SubSeq(s, k + 1, Len(s))]

\* path.posix normalizeString: drop "" and "." segments, resolve "..".
NormalizeSegments[segs \in Seq(Seq(STRING)), acc \in Seq(Seq(STRING)), allowAboveRoot \in BOOLEAN] ==
    IF segs = <<>> THEN acc
    ELSE LET seg == Head(segs)
             rest == Tail(segs)
         IN IF seg = <<>> \/ seg = <<".">>
              THEN NormalizeSegments[rest, acc, allowAboveRoot]
            ELSE IF seg = <<".", ".">>
              THEN IF acc # <<>> /\ acc[Len(acc)] # <<".", ".">>
                     THEN NormalizeSegments[rest, SubSeq(acc, 1, Len(acc) - 1),
                                            allowAboveRoot]
                   ELSE IF allowAboveRoot
                     THEN NormalizeSegments[rest, Append(acc, seg), allowAboveRoot]
                   ELSE NormalizeSegments[rest, acc, allowAboveRoot]
            ELSE NormalizeSegments[rest, Append(acc, seg), allowAboveRoot]

\* path.posix.normalize.
Normalize[p \in Seq(STRING)] ==
    IF p = <<>> THEN <<".">>
    ELSE LET isAbsolute == p[1] = "/"
             trailingSeparator == p[Len(p)] = "/"
             body == JoinSeq[NormalizeSegments[SplitSlash[p], <<>>, ~isAbsolute],
                             <<"/">>]
         IN IF body = <<>>
              THEN IF isAbsolute THEN <<"/">>
                   ELSE IF trailingSeparator THEN <<".", "/">> ELSE <<".">>
            ELSE (IF isAbsolute THEN <<"/">> ELSE <<>>)
                 \o body
                 \o (IF trailingSeparator THEN <<"/">> ELSE <<>>)

PathNormalize(p) == Normalize[p]

\* path.posix.join: the non-empty arguments joined by "/", then normalized.
Join[args \in Seq(Seq(STRING))] ==
    LET joined == JoinSeq[SelectSeq(args, LAMBDA a : a # <<>>), <<"/">>]
    IN IF joined = <<>> THEN <<".">> ELSE Normalize[joined]

PathJoin(args) == Join[args]

\* ------------------------------------------------------------------ constants

COMPILER_BASE_URL ==
    <<"https://ww1.microchip.com/downloads/aemDocuments/documents/DEV/ProductDocuments/SoftwareTools">>

I386 == <<":", "i", "3", "8", "6">>

REQUIRED_PACKAGES ==
    << <<"l", "i", "b", "c", "6">> \o I386,
       <<"l", "i", "b", "x", "1", "1", "-", "6">> \o I386,
       <<"l", "i", "b", "x", "e", "x", "t", "6">> \o I386,
       <<"l", "i", "b", "s", "t", "d", "c", "+", "+", "6">> \o I386,
       <<"l", "i", "b", "e", "x", "p", "a", "t", "1">> \o I386 >>

XC8 == <<"x", "c", "8">>
XC16 == <<"x", "c", "1", "6">>
XC32 == <<"x", "c", "3", "2">>

\* Mutant: the allow-list has an identifier the URL builder does not know.
validCompilers_WithXc7 == <<XC8, XC16, XC32, <<"x", "c", "7">>>>

\* run, line 269
validCompilers == <<XC8, XC16, XC32>>

DefaultInstallDir ==
    <<"/", "o", "p", "t", "/", "m", "i", "c", "r", "o", "c", "h", "i", "p">>

BinSegment == <<"b", "i", "n">>

\* ------------------------------------------------------------------ errors

\* A thrown value: an Error object with a message, or any other value whose
\* String() is str.
NewError(msg) == [isError |-> TRUE, message |-> msg, str |-> <<>>]

\* error instanceof Error ? error.message : String(error)
ErrorText(e) == IF e.isError THEN e.message ELSE e.str

\* What an external call (a subprocess, the download, the tool cache, the
\* file system) can throw: Error objects and one non-Error value.
ExtErrors ==
    { [isError |-> TRUE, message |-> <<"external error " \o ToString(n)>>, str |-> <<>>] :
        n \in 1..NumErrors }
    \cup { [isError |-> FALSE, message |-> <<>>, str |-> <<"thrown value">>] }

\* ------------------------------------------------------------------ helpers of main.ts

\* core.getInput(name, {required}): the INPUT_<NAME> environment value, trimmed;
\* throws when a required input is empty.
GetInput(name, val, required) ==
    IF required /\ val = <<>>
      THEN [ok |-> FALSE,
            err |-> NewError(<<"Input required and not supplied: ", name>>)]
      ELSE [ok |-> TRUE, val |-> Trim(val)]

\* What exec.getExecOutput('dpkg', ['-l', pkg], {ignoreReturnCode: true}) can do:
\* throw, or return an exit code and the captured stdout.
ExecOutputs ==
    { [threw |-> TRUE, exitCode |-> 0, stdout |-> <<>>],
      [threw |-> FALSE, exitCode |-> 1, stdout |-> <<"n", "o", "n", "e">>],
      [threw |-> FALSE, exitCode |-> 0, stdout |-> <<"i", "i", " ", " ", "l", "i", "b">>],
      [threw |-> FALSE, exitCode |-> 0, stdout |-> <<"r", "c", " ", " ", "l", "i", "b">>],
      [threw |-> FALSE, exitCode |-> 1, stdout |-> <<"i", "i", " ", " ", "l", "i", "b">>] }

\* Mutant: the exit code of the query is not looked at.
isPackageInstalled_IgnoresExitCode(result) ==
    IF result.threw THEN FALSE
    ELSE Includes(result.stdout, <<"i", "i">>)

\* isPackageInstalled, given what the dpkg query did.
isPackageInstalled(result) ==
    IF result.threw THEN FALSE
    ELSE result.exitCode = 0 /\ Includes(result.stdout, <<"i", "i">>)

\* Mutant: the xc16 installer is named like the other two.
getDownloadUrl_X64ForAll(c, v) ==
    LET compilerLower == ToLowerCase(c)
        versionStr == <<"v">> \o v
    IN IF compilerLower \in {XC8, XC16, XC32}
         THEN [ok |-> TRUE,
               val |-> COMPILER_BASE_URL \o <<"/">>
                       \o (IF compilerLower = XC8 THEN <<"xc8-">>
                           ELSE IF compilerLower = XC16 THEN <<"xc16-">>
                           ELSE <<"xc32-">>)
                       \o versionStr \o <<"-full-install-linux-x64-installer.run">>]
       ELSE [ok |-> FALSE,
             err |-> NewError(<<"Unsupported compiler: ">> \o c
                              \o <<". Must be one of: xc8, xc16, xc32">>)]

\* Mutant: the error names the lower-cased identifier.
getDownloadUrl_NamesLowerCased(c, v) ==
    LET compilerLower == ToLowerCase(c)
        versionStr == <<"v">> \o v
    IN IF compilerLower = XC8
         THEN [ok |-> TRUE,
               val |-> COMPILER_BASE_URL \o <<"/">> \o <<"xc8-">> \o versionStr
                       \o <<"-full-install-linux-x64-installer.run">>]
       ELSE IF compilerLower = XC16
         THEN [ok |-> TRUE,
               val |-> COMPILER_BASE_URL \o <<"/">> \o <<"xc16-">> \o versionStr
                       \o <<"-full-install-linux64-installer.run">>]
       ELSE IF compilerLower = XC32
         THEN [ok |-> TRUE,
               val |-> COMPILER_BASE_URL \o <<"/">> \o <<"xc32-">> \o versionStr
                       \o <<"-full-install-linux-x64-installer.run">>]
       ELSE [ok |-> FALSE,
             err |-> NewError(<<"Unsupported compiler: ">> \o compilerLower
                              \o <<". Must be one of: xc8, xc16, xc32">>)]

\* getDownloadUrl: [ok, val] with the URL, or [ok, err] with the thrown Error.
getDownloadUrl(c, v) ==
    LET compilerLower == ToLowerCase(c)
        versionStr == <<"v">> \o v
        unsupported ==
            NewError(<<"Unsupported compiler: ">> \o c
                     \o <<". Must be one of: xc8, xc16, xc32">>)
    IN IF compilerLower = XC8
         THEN [ok |-> TRUE,
               val |-> COMPILER_BASE_URL \o <<"/">> \o <<"xc8-">> \o versionStr
                       \o <<"-full-install-linux-x64-installer.run">>]
       ELSE IF compilerLower = XC16
         THEN [ok |-> TRUE,
               val |-> COMPILER_BASE_URL \o <<"/">> \o <<"xc16-">> \o versionStr
                       \o <<"-full-install-linux64-installer.run">>]
       ELSE IF compilerLower = XC32
         THEN [ok |-> TRUE,
               val |-> COMPILER_BASE_URL \o <<"/">> \o <<"xc32-">> \o versionStr
                       \o <<"-full-install-linux-x64-installer.run">>]
       ELSE [ok |-> FALSE, err |-> unsupported]

\* Mutant: the path is built by concatenation, not by path.join.
getCompilerPath_Concatenated(dir, c, v) ==
    dir \o <<"/">> \o ToLowerCase(c) \o <<"/">> \o <<"v">> \o v

\* Mutant: the identifier is used as written in the path.
getCompilerPath_AsWritten(dir, c, v) == PathJoin(<<dir, c, <<"v">> \o v>>)

\* getCompilerPath
getCompilerPath(dir, c, v) == PathJoin(<<dir, ToLowerCase(c), <<"v">> \o v>>)

\* Mutant: "/bin" is appended to the text of the path.
getBinPath_Concatenated(cp) == cp \o <<"/">> \o BinSegment

\* getBinPath
getBinPath(cp) == PathJoin(<<cp, BinSegment>>)

\* ------------------------------------------------------------------ state

\* The processes that execute run(): one per CI step that uses the action.
Procs == {"step1", "step2"}

V310 == <<"3", ".", "1", "0">>

\* The INPUT_COMPILER, INPUT_VERSION and INPUT_INSTALL-DIR values a step can
\* be started with.
CompilerInputs == { XC16, <<"X", "C", "1", "6">>, <<"x", "c", "7">>, <<" ">>, <<>> }
VersionInputs == { V310, <<>> }
InstallDirInputs == { <<>>, <<"/", "w", " ", "s">> }

Envs ==
    [compiler : CompilerInputs, version : VersionInputs, installDir : InstallDirInputs]

NoEnv == [compiler |-> <<>>, version |-> <<>>, installDir |-> <<>>]

\* The paths tc.downloadTool can return.
TmpPaths == { <<"/tmp/installer" \o ToString(n)>> : n \in 1..NumTmpPaths }

\* Tool-cache contents left by earlier jobs.
InitialToolCaches ==
    { {}, { [name |-> XC16, version |-> V310, path |-> <<"/", "c", "/", "p">>,
              source |-> <<"/", "s">>] } }

ToolCacheRoot == <<"/", "t", "c">>

VARIABLES
    pc,               \* where each process is in run()
    env,              \* the inputs each process was started with
    compiler,         \* run: const compiler
    version,          \* run: const version
    installDir,       \* run: const installDir
    pkgIdx,           \* installPrerequisites: position in REQUIRED_PACKAGES
    missingPackages,  \* installPrerequisites: const missingPackages
    installerPath,    \* run: let installerPath
    compilerPath,     \* run: const compilerPath
    pathAdded,        \* the directories given to core.addPath, in order
    outputs,          \* the <<name, value>> pairs given to core.setOutput, in order
    failed,           \* the messages given to core.setFailed, in order
    calls,            \* the external calls each process made, in order
    toolCache,        \* the tool cache: a set of [name, version, path, source]
    fnCall,           \* a direct call of an exported function: its name and arguments
    fnResult          \* what that call returned or threw, once it was made

vars == <<pc, env, compiler, version, installDir, pkgIdx, missingPackages,
          installerPath, compilerPath, pathAdded, outputs, failed, calls, toolCache,
          fnCall, fnResult>>

fnVars == <<fnCall, fnResult>>

\* No exported function is called directly / the call has not been made yet.
NoFnCall == [fn |-> "none"]
NotCalled == [called |-> FALSE]

locals == <<compiler, version, installDir, pkgIdx, missingPackages,
            installerPath, compilerPath>>

\* The state of the processes before any step has started.
ProcsIdle ==
    /\ pc = [p \in Procs |-> "idle"]
    /\ env = [p \in Procs |-> NoEnv]
    /\ compiler = [p \in Procs |-> <<>>]
    /\ version = [p \in Procs |-> <<>>]
    /\ installDir = [p \in Procs |-> <<>>]
    /\ pkgIdx = [p \in Procs |-> 0]
    /\ missingPackages = [p \in Procs |-> <<>>]
    /\ installerPath = [p \in Procs |-> <<>>]
    /\ compilerPath = [p \in Procs |-> <<>>]
    /\ pathAdded = [p \in Procs |-> <<>>]
    /\ outputs = [p \in Procs |-> <<>>]
    /\ failed = [p \in Procs |-> <<>>]
    /\ calls = [p \in Procs |-> <<>>]

Init ==
    /\ ProcsIdle
    /\ toolCache \in InitialToolCaches
    /\ fnCall = NoFnCall
    /\ fnResult = NotCalled

\* One external call as recorded in calls: the operation, its arguments,
\* whether it completed without throwing, and what it returned (<<"true">>
\* or <<"false">> for a boolean) or, when it threw, the text of what it threw.
Call(op, args, ok, ret) == [op |-> op, args |-> args, ok |-> ok, ret |-> ret]

BoolText(b) == IF b THEN <<"true">> ELSE <<"false">>

\* Mutant: the error leaves run unhandled.
Catch_Escapes(p, error) ==
    /\ pc' = [pc EXCEPT ![p] = "Crashed"]
    /\ UNCHANGED failed

\* run, lines 371-377: the catch block reports the error through core.setFailed.
Catch(p, error) ==
    /\ pc' = [pc EXCEPT ![p] = "Failed"]
    /\ failed' = [failed EXCEPT ![p] = Append(@, ErrorText(error))]

\* Mutant: the install directory is emitted for both outputs.
Publish_SameOutputs(p, dir, bin) ==
    /\ pathAdded' = [pathAdded EXCEPT ![p] = Append(@, bin)]
    /\ outputs' = [outputs EXCEPT ![p] =
                      @ \o << <<"install-dir", dir>>, <<"compiler-path", dir>> >>]
    /\ pc' = [pc EXCEPT ![p] = "Success"]

\* Mutant: the directory itself, not its bin directory, is appended to PATH.
Publish_PathOfDir(p, dir, bin) ==
    /\ pathAdded' = [pathAdded EXCEPT ![p] = Append(@, dir)]
    /\ outputs' = [outputs EXCEPT ![p] =
                      @ \o << <<"install-dir", dir>>, <<"compiler-path", bin>> >>]
    /\ pc' = [pc EXCEPT ![p] = "Success"]

\* core.addPath(bin); core.setOutput('install-dir', dir);
\* core.setOutput('compiler-path', bin); then run returns.
Publish(p, dir, bin) ==
    /\ pathAdded' = [pathAdded EXCEPT ![p] = Append(@, bin)]
    /\ outputs' = [outputs EXCEPT ![p] =
                      @ \o << <<"install-dir", dir>>, <<"compiler-path", bin>> >>]
    /\ pc' = [pc EXCEPT ![p] = "Success"]

\* Mutant: the lookup is made with the lower-cased identifier.
TcFind_LowerCased(name, v) ==
    IF \E e \in toolCache : e.name = ToLowerCase(name) /\ e.version = v
      THEN (CHOOSE e \in toolCache : e.name = ToLowerCase(name) /\ e.version = v).path
      ELSE <<>>

\* tc.find(name, version): the cached path, or the empty string.
TcFind(name, v) ==
    IF \E e \in toolCache : e.name = name /\ e.version = v
      THEN (CHOOSE e \in toolCache : e.name = name /\ e.version = v).path
      ELSE <<>>

\* tc.cacheDir(source, name, version): the canonical path the cache stores
\* the directory under.
TcCanonicalPath(name, v) == PathJoin(<<ToolCacheRoot, name, v, <<"x", "6", "4">>>>)

\* ------------------------------------------------------------------ run()

Log(p, call) == calls' = [calls EXCEPT ![p] = Append(@, call)]

\* run, lines 260-274: a CI step starts the action with some inputs; run
\* reads them and validates the compiler type.
ValidateInput(p) ==
    /\ pc[p] = "idle"
    /\ \E e \in Envs :
         LET c == GetInput("compiler", e.compiler, TRUE)
             v == GetInput("version", e.version, TRUE)
             d == GetInput("install-dir", e.installDir, FALSE)
         IN /\ env' = [env EXCEPT ![p] = e]
            /\ IF ~c.ok THEN
                 /\ Catch(p, c.err)
                 /\ UNCHANGED <<compiler, version, installDir>>
               ELSE IF ~v.ok THEN
                 /\ Catch(p, v.err)
                 /\ UNCHANGED <<compiler, version, installDir>>
               ELSE
                 /\ compiler' = [compiler EXCEPT ![p] = c.val]
                 /\ version' = [version EXCEPT ![p] = v.val]
                 /\ installDir' = [installDir EXCEPT ![p] =
                        IF d.val # <<>> THEN d.val ELSE DefaultInstallDir]
                 /\ IF \E i \in DOMAIN validCompilers :
                           validCompilers[i] = ToLowerCase(c.val)
                      THEN /\ pc' = [pc EXCEPT ![p] = "find"]
                           /\ UNCHANGED failed
                      ELSE Catch(p, NewError(
                               <<"Invalid compiler type: ">> \o c.val
                               \o <<". Must be one of: ">>
                               \o JoinWith(validCompilers, <<",", " ">>)))
    /\ UNCHANGED <<pkgIdx, missingPackages, installerPath, compilerPath,
                   pathAdded, outputs, calls, toolCache>>
    /\ UNCHANGED fnVars

\* run, lines 276-291: the tool-cache lookup and, on a hit, the cached path
\* is published and run returns.
CacheLookup(p) ==
    /\ pc[p] = "find"
    /\ \/ \E e \in ExtErrors :
            /\ Log(p, Call("tc.find", <<compiler[p], version[p]>>, FALSE, ErrorText(e)))
            /\ Catch(p, e)
            /\ UNCHANGED <<pathAdded, outputs, pkgIdx, missingPackages>>
       \/ LET cachedPath == TcFind(compiler[p], version[p])
          IN /\ Log(p, Call("tc.find", <<compiler[p], version[p]>>, TRUE, cachedPath))
             /\ IF cachedPath # <<>>
                  THEN /\ Publish(p, cachedPath, getBinPath(cachedPath))
                       /\ UNCHANGED <<pkgIdx, missingPackages>>
                  ELSE /\ pc' = [pc EXCEPT ![p] = "checkPkg"]
                       /\ pkgIdx' = [pkgIdx EXCEPT ![p] = 1]
                       /\ missingPackages' = [missingPackages EXCEPT ![p] = <<>>]
                       /\ UNCHANGED <<pathAdded, outputs>>
             /\ UNCHANGED failed
    /\ UNCHANGED <<env, compiler, version, installDir, installerPath,
                   compilerPath, toolCache>>
    /\ UNCHANGED fnVars

\* Mutant: no early return when nothing is missing.
CheckPackage_NoEarlyReturn(p) ==
    /\ pc[p] = "checkPkg"
    /\ \E result \in ExecOutputs :
         LET pkg == REQUIRED_PACKAGES[pkgIdx[p]]
             installed == isPackageInstalled(result)
             missing == IF installed THEN missingPackages[p]
                        ELSE Append(missingPackages[p], pkg)
         IN /\ Log(p, Call("isPackageInstalled", <<pkg>>, TRUE, BoolText(installed)))
            /\ missingPackages' = [missingPackages EXCEPT ![p] = missing]
            /\ IF pkgIdx[p] < Len(REQUIRED_PACKAGES)
                 THEN /\ pkgIdx' = [pkgIdx EXCEPT ![p] = @ + 1]
                      /\ UNCHANGED pc
                 ELSE /\ pc' = [pc EXCEPT ![p] = "addArch"]
                      /\ UNCHANGED pkgIdx
    /\ UNCHANGED <<env, compiler, version, installDir, installerPath,
                   compilerPath, pathAdded, outputs, failed, toolCache>>
    /\ UNCHANGED fnVars

\* installPrerequisites, lines 175-186: one iteration of the loop over
\* REQUIRED_PACKAGES, and after the last one the early return.
CheckPackage(p) ==
    /\ pc[p] = "checkPkg"
    /\ \E result \in ExecOutputs :
         LET pkg == REQUIRED_PACKAGES[pkgIdx[p]]
             installed == isPackageInstalled(result)
             missing == IF installed THEN missingPackages[p]
                        ELSE Append(missingPackages[p], pkg)
         IN /\ Log(p, Call("isPackageInstalled", <<pkg>>, TRUE, BoolText(installed)))
            /\ missingPackages' = [missingPackages EXCEPT ![p] = missing]
            /\ IF pkgIdx[p] < Len(REQUIRED_PACKAGES)
                 THEN /\ pkgIdx' = [pkgIdx EXCEPT ![p] = @ + 1]
                      /\ UNCHANGED pc
                 ELSE /\ pc' = [pc EXCEPT ![p] =
                             IF Len(missing) = 0 THEN "download" ELSE "addArch"]
                      /\ UNCHANGED pkgIdx
    /\ UNCHANGED <<env, compiler, version, installDir, installerPath,
                   compilerPath, pathAdded, outputs, failed, toolCache>>
    /\ UNCHANGED fnVars

\* Mutant: run wraps the prerequisite error once more before reporting it.
PrerequisiteFailed_Rewrapped(p, e) ==
    Catch(p, NewError(<<"Setup failed: ">> \o <<"Failed to install prerequisites: ">>
                      \o ErrorText(e)))

\* Mutant: the cause is taken from error.message whatever was thrown.
PrerequisiteFailed_MessageOnly(p, e) ==
    Catch(p, NewError(<<"Failed to install prerequisites: ">> \o e.message))

\* installPrerequisites, lines 206-210: a failure of a privileged command is
\* rethrown wrapped, and run's catch block reports it.
PrerequisiteFailed(p, e) ==
    Catch(p, NewError(<<"Failed to install prerequisites: ">> \o ErrorText(e)))

\* One privileged command of installPrerequisites: exec.exec('sudo', args)
\* resolves, or rejects (a non-zero exit code included).
SudoExec(p, at, args, next) ==
    /\ pc[p] = at
    /\ \/ /\ Log(p, Call("sudo", args, TRUE, <<>>))
          /\ pc' = [pc EXCEPT ![p] = next]
          /\ UNCHANGED failed
       \/ \E e \in ExtErrors :
            /\ Log(p, Call("sudo", args, FALSE, ErrorText(e)))
            /\ PrerequisiteFailed(p, e)
    /\ UNCHANGED <<env, locals, pathAdded, outputs, toolCache>>
    /\ UNCHANGED fnVars

\* installPrerequisites, line 193
AddArchitecture(p) ==
    SudoExec(p, "addArch", << <<"dpkg">>, <<"--add-architecture">>, <<"i386">> >>,
             "aptUpdate")

\* installPrerequisites, line 197
AptUpdate(p) ==
    SudoExec(p, "aptUpdate", << <<"apt-get">>, <<"update">>, <<"-qq">> >>, "aptInstall")

\* Mutant: the first missing package is left out of the install command.
AptInstall_DropsFirst(p) ==
    SudoExec(p, "aptInstall",
             << <<"apt-get">>, <<"install">>, <<"-y">>, <<"-qq">> >>
             \o Tail(missingPackages[p]),
             "download")

\* Mutant: every required package is installed, missing or not.
AptInstall_AllPackages(p) ==
    SudoExec(p, "aptInstall",
             << <<"apt-get">>, <<"install">>, <<"-y">>, <<"-qq">> >> \o REQUIRED_PACKAGES,
             "download")

\* installPrerequisites, lines 201-203
AptInstall(p) ==
    SudoExec(p, "aptInstall",
             << <<"apt-get">>, <<"install">>, <<"-y">>, <<"-qq">> >> \o missingPackages[p],
             "download")

\* Mutant: the URL is left out of the message.
DownloadFailed_NoUrl(url, v, c, e) ==
    NewError(<<"Failed to download installer from ">> \o <<". ">>
             \o <<"Please verify that version ">> \o v \o <<" exists for ">> \o c
             \o <<". ">> \o <<"Error: ">> \o ErrorText(e))

\* run, lines 307-311: the error a failed download is wrapped into.
DownloadFailed(url, v, c, e) ==
    NewError(<<"Failed to download installer from ">> \o url \o <<". ">>
             \o <<"Please verify that version ">> \o v \o <<" exists for ">> \o c
             \o <<". ">> \o <<"Error: ">> \o ErrorText(e))

\* Mutant: a failed download is attempted again.
Download_Retries(p) ==
    /\ pc[p] = "download"
    /\ LET downloadUrl == getDownloadUrl(compiler[p], version[p])
       IN IF ~downloadUrl.ok
            THEN /\ Catch(p, downloadUrl.err)
                 /\ UNCHANGED <<calls, installerPath>>
            ELSE \/ \E t \in TmpPaths :
                      /\ Log(p, Call("tc.downloadTool", <<downloadUrl.val>>, TRUE, t))
                      /\ installerPath' = [installerPath EXCEPT ![p] = t]
                      /\ pc' = [pc EXCEPT ![p] = "chmod"]
                      /\ UNCHANGED failed
                 \/ \E e \in ExtErrors :
                      /\ Len(calls[p]) < 8
                      /\ Log(p, Call("tc.downloadTool", <<downloadUrl.val>>, FALSE,
                                  ErrorText(e)))
                      /\ UNCHANGED <<pc, failed, installerPath>>
    /\ UNCHANGED <<env, compiler, version, installDir, pkgIdx, missingPackages,
                   compilerPath, pathAdded, outputs, toolCache>>
    /\ UNCHANGED fnVars

\* run, lines 296-312
Download(p) ==
    /\ pc[p] = "download"
    /\ LET downloadUrl == getDownloadUrl(compiler[p], version[p])
       IN IF ~downloadUrl.ok
            THEN /\ Catch(p, downloadUrl.err)
                 /\ UNCHANGED <<calls, installerPath>>
            ELSE \/ \E t \in TmpPaths :
                      /\ Log(p, Call("tc.downloadTool", <<downloadUrl.val>>, TRUE, t))
                      /\ installerPath' = [installerPath EXCEPT ![p] = t]
                      /\ pc' = [pc EXCEPT ![p] = "chmod"]
                      /\ UNCHANGED failed
                 \/ \E e \in ExtErrors :
                      /\ Log(p, Call("tc.downloadTool", <<downloadUrl.val>>, FALSE,
                                  ErrorText(e)))
                      /\ Catch(p, DownloadFailed(downloadUrl.val, version[p],
                                                 compiler[p], e))
                      /\ UNCHANGED installerPath
    /\ UNCHANGED <<env, compiler, version, installDir, pkgIdx, missingPackages,
                   compilerPath, pathAdded, outputs, toolCache>>
    /\ UNCHANGED fnVars

\* run, line 315
Chmod(p) ==
    /\ pc[p] = "chmod"
    /\ \/ /\ Log(p, Call("chmod", << <<"+x">>, installerPath[p] >>, TRUE, <<>>))
          /\ pc' = [pc EXCEPT ![p] = "ensureDir"]
          /\ UNCHANGED failed
       \/ \E e \in ExtErrors :
            /\ Log(p, Call("chmod", << <<"+x">>, installerPath[p] >>, FALSE,
                           ErrorText(e)))
            /\ Catch(p, e)
    /\ UNCHANGED <<env, locals, pathAdded, outputs, toolCache>>
    /\ UNCHANGED fnVars

\* run, lines 318-324
EnsureInstallDir(p) ==
    /\ pc[p] = "ensureDir"
    /\ compilerPath' = [compilerPath EXCEPT ![p] =
           getCompilerPath(installDir[p], compiler[p], version[p])]
    /\ \/ /\ Log(p, Call("fs.existsSync", <<installDir[p]>>, TRUE, BoolText(TRUE)))
          /\ pc' = [pc EXCEPT ![p] = "installer"]
          /\ UNCHANGED failed
       \/ /\ calls' = [calls EXCEPT ![p] =
                 @ \o << Call("fs.existsSync", <<installDir[p]>>, TRUE, BoolText(FALSE)),
                         Call("fs.mkdirSync", <<installDir[p], <<"recursive">>>>,
                              TRUE, <<>>) >>]
          /\ pc' = [pc EXCEPT ![p] = "installer"]
          /\ UNCHANGED failed
       \/ \E e \in ExtErrors :
            /\ calls' = [calls EXCEPT ![p] =
                 @ \o << Call("fs.existsSync", <<installDir[p]>>, TRUE, BoolText(FALSE)),
                         Call("fs.mkdirSync", <<installDir[p], <<"recursive">>>>,
                              FALSE, ErrorText(e)) >>]
            /\ Catch(p, e)
    /\ UNCHANGED <<env, compiler, version, installDir, pkgIdx, missingPackages,
                   installerPath, pathAdded, outputs, toolCache>>
    /\ UNCHANGED fnVars

\* Mutant: the license-server argument pair is left out.
InstallerArgs_NoNetServer(prefix) ==
    << <<"--mode">>, <<"unattended">>, <<"--prefix">>, prefix >>

\* run, line 337: the installer's arguments.
InstallerArgs(prefix) ==
    << <<"--mode">>, <<"unattended">>, <<"--netservername">>, <<"localhost">>,
       <<"--prefix">>, prefix >>

\* Mutant: the installer's error is passed on as it is.
InstallationFailed_Unwrapped(e) == NewError(ErrorText(e))

\* run, lines 341-344: the error a failed installer is wrapped into.
InstallationFailed(e) ==
    NewError(<<"Installation failed. The installer may require sudo privileges or ",
               "the version may not be available. Error: ">> \o ErrorText(e))

\* Mutant: the cache is looked up again before the installer is executed.
RunInstaller_RechecksCache(p) ==
    /\ pc[p] = "installer"
    /\ LET cachedPath == TcFind(compiler[p], version[p])
       IN IF cachedPath # <<>>
            THEN /\ Log(p, Call("tc.find", <<compiler[p], version[p]>>, TRUE, cachedPath))
                 /\ Publish(p, cachedPath, getBinPath(cachedPath))
                 /\ UNCHANGED failed
            ELSE /\ \/ /\ Log(p, Call("installer",
                                      <<installerPath[p]>> \o InstallerArgs(compilerPath[p]),
                                      TRUE, <<>>))
                       /\ pc' = [pc EXCEPT ![p] = "verify"]
                       /\ UNCHANGED failed
                    \/ \E e \in ExtErrors :
                         /\ Log(p, Call("installer",
                                        <<installerPath[p]>> \o InstallerArgs(compilerPath[p]),
                                        FALSE, ErrorText(e)))
                         /\ Catch(p, InstallationFailed(e))
                 /\ UNCHANGED <<pathAdded, outputs>>
    /\ UNCHANGED <<env, locals, toolCache>>
    /\ UNCHANGED fnVars

\* run, lines 334-345
RunInstaller(p) ==
    /\ pc[p] = "installer"
    /\ \/ /\ Log(p, Call("installer", <<installerPath[p]>> \o InstallerArgs(compilerPath[p]),
                         TRUE, <<>>))
          /\ pc' = [pc EXCEPT ![p] = "verify"]
          /\ UNCHANGED failed
       \/ \E e \in ExtErrors :
            /\ Log(p, Call("installer", <<installerPath[p]>> \o InstallerArgs(compilerPath[p]),
                           FALSE, ErrorText(e)))
            /\ Catch(p, InstallationFailed(e))
    /\ UNCHANGED <<env, locals, pathAdded, outputs, toolCache>>
    /\ UNCHANGED fnVars

\* Mutant: the bin directory is put on PATH before its existence is checked.
Verify_PathAddedFirst(p) ==
    /\ pc[p] = "verify"
    /\ LET binPath == getBinPath(compilerPath[p])
       IN /\ pathAdded' = [pathAdded EXCEPT ![p] = Append(@, binPath)]
          /\ \E exists \in BOOLEAN :
               /\ Log(p, Call("fs.existsSync", <<binPath>>, TRUE, BoolText(exists)))
               /\ IF exists
                    THEN /\ pc' = [pc EXCEPT ![p] = "cacheDir"]
                         /\ UNCHANGED failed
                    ELSE Catch(p, NewError(
                             <<"Installation verification failed: bin directory not found at ">>
                             \o binPath))
    /\ UNCHANGED <<env, locals, outputs, toolCache>>
    /\ UNCHANGED fnVars

\* Mutant: the result of the existence check is ignored.
Verify_Ignored(p) ==
    /\ pc[p] = "verify"
    /\ \E exists \in BOOLEAN :
         Log(p, Call("fs.existsSync", <<getBinPath(compilerPath[p])>>, TRUE,
                     BoolText(exists)))
    /\ pc' = [pc EXCEPT ![p] = "cacheDir"]
    /\ UNCHANGED <<env, locals, pathAdded, outputs, failed, toolCache>>
    /\ UNCHANGED fnVars

\* run, lines 350-353
Verify(p) ==
    /\ pc[p] = "verify"
    /\ LET binPath == getBinPath(compilerPath[p])
       IN \E exists \in BOOLEAN :
            /\ Log(p, Call("fs.existsSync", <<binPath>>, TRUE, BoolText(exists)))
            /\ IF exists
                 THEN /\ pc' = [pc EXCEPT ![p] = "cacheDir"]
                      /\ UNCHANGED failed
                 ELSE Catch(p, NewError(
                          <<"Installation verification failed: bin directory not found at ">>
                          \o binPath))
    /\ UNCHANGED <<env, locals, pathAdded, outputs, toolCache>>
    /\ UNCHANGED fnVars

\* Mutant: PATH and the outputs are written before the directory is cached.
CacheDir_PublishesFirst(p) ==
    /\ pc[p] = "cacheDir"
    /\ LET args == <<compilerPath[p], compiler[p], version[p]>>
       IN \/ /\ Log(p, Call("tc.cacheDir", args, TRUE,
                            TcCanonicalPath(compiler[p], version[p])))
             /\ toolCache' =
                    { e \in toolCache :
                        ~(e.name = compiler[p] /\ e.version = version[p]) }
                    \cup { [name |-> compiler[p], version |-> version[p],
                            path |-> TcCanonicalPath(compiler[p], version[p]),
                            source |-> compilerPath[p]] }
             /\ Publish(p, compilerPath[p], getBinPath(compilerPath[p]))
             /\ UNCHANGED failed
          \/ \E e \in ExtErrors :
               /\ Log(p, Call("tc.cacheDir", args, FALSE, ErrorText(e)))
               /\ pathAdded' = [pathAdded EXCEPT ![p] =
                                   Append(@, getBinPath(compilerPath[p]))]
               /\ outputs' = [outputs EXCEPT ![p] =
                                 @ \o << <<"install-dir", compilerPath[p]>>,
                                         <<"compiler-path", getBinPath(compilerPath[p])>> >>]
               /\ Catch(p, e)
               /\ UNCHANGED toolCache
    /\ UNCHANGED <<env, locals>>
    /\ UNCHANGED fnVars

\* run, lines 357-370: the installed directory is handed to the tool cache
\* and the result is published.
CacheDir(p) ==
    /\ pc[p] = "cacheDir"
    /\ LET args == <<compilerPath[p], compiler[p], version[p]>>
       IN \/ /\ Log(p, Call("tc.cacheDir", args, TRUE,
                            TcCanonicalPath(compiler[p], version[p])))
             /\ toolCache' =
                    { e \in toolCache :
                        ~(e.name = compiler[p] /\ e.version = version[p]) }
                    \cup { [name |-> compiler[p], version |-> version[p],
                            path |-> TcCanonicalPath(compiler[p], version[p]),
                            source |-> compilerPath[p]] }
             /\ Publish(p, compilerPath[p], getBinPath(compilerPath[p]))
             /\ UNCHANGED failed
          \/ \E e \in ExtErrors :
               /\ Log(p, Call("tc.cacheDir", args, FALSE, ErrorText(e)))
               /\ Catch(p, e)
               /\ UNCHANGED <<pathAdded, outputs, toolCache>>
    /\ UNCHANGED <<env, locals>>
    /\ UNCHANGED fnVars

\* The step's process ends after run returned; its memory is gone.  What it
\* stored in the tool cache stays.
Exit(p) ==
    /\ pc[p] \in {"Success", "Failed"}
    /\ pc' = [pc EXCEPT ![p] = "idle"]
    /\ env' = [env EXCEPT ![p] = NoEnv]
    /\ compiler' = [compiler EXCEPT ![p] = <<>>]
    /\ version' = [version EXCEPT ![p] = <<>>]
    /\ installDir' = [installDir EXCEPT ![p] = <<>>]
    /\ pkgIdx' = [pkgIdx EXCEPT ![p] = 0]
    /\ missingPackages' = [missingPackages EXCEPT ![p] = <<>>]
    /\ installerPath' = [installerPath EXCEPT ![p] = <<>>]
    /\ compilerPath' = [compilerPath EXCEPT ![p] = <<>>]
    /\ pathAdded' = [pathAdded EXCEPT ![p] = <<>>]
    /\ outputs' = [outputs EXCEPT ![p] = <<>>]
    /\ failed' = [failed EXCEPT ![p] = <<>>]
    /\ calls' = [calls EXCEPT ![p] = <<>>]
    /\ UNCHANGED toolCache
    /\ UNCHANGED fnVars

\* CI steps run one at a time: a step starts when no other is running.
StartStep(p) ==
    /\ \A q \in Procs \ {p} : pc[q] = "idle"
    /\ ValidateInput(p)

\* The steps of run() after input validation.
RunStep(p) ==
    \/ CacheLookup(p)
    \/ CheckPackage(p)
    \/ AddArchitecture(p)
    \/ AptUpdate(p)
    \/ AptInstall(p)
    \/ Download(p)
    \/ Chmod(p)
    \/ EnsureInstallDir(p)
    \/ RunInstaller(p)
    \/ Verify(p)
    \/ CacheDir(p)

Next ==
    \E p \in Procs :
        \/ StartStep(p)
        \/ RunStep(p)
        \/ Exit(p)

Spec == Init /\ [][Next]_vars

\* ------------------------------------------------------------------ the exported functions, called directly

\* The texts of at most n characters over chars.
Texts(chars, n) == UNION { [1..k -> chars] : k \in 0..n }

\* What exec.getExecOutput('dpkg', ['-l', packageName], ...) can do when
\* isPackageInstalled is called directly: throw, or return any exit code with
\* any captured text.
StdoutChars == {"i", "r", "c", " "}

DpkgOutcomes ==
    { [threw |-> TRUE, exitCode |-> 0, stdout |-> <<>>] }
    \cup { [threw |-> FALSE, exitCode |-> x, stdout |-> t] :
             x \in 0..MaxExitCode, t \in Texts(StdoutChars, MaxStdoutLen) }

\* The compiler arguments of a direct call: the identifiers "xc" followed by
\* some digits, in every letter case, and a few texts of another shape.
CompilerArgs ==
    { <<a, b>> \o d :
        a \in {"x", "X"}, b \in {"c", "C"},
        d \in { <<"8">>, <<"1", "6">>, <<"3", "2">>, <<"7">>, <<>>, <<"8", "8">>,
                <<"8", " ">> } }
    \cup { <<>>, <<" ", "x", "c", "8">>, <<"g", "c", "c">> }

\* The version arguments of a direct call.
VersionArgs ==
    { V310, <<"2", ".", "1", "0">>, <<>>, <<"v", "1">>, <<"1", " ", "0">> }

\* The installDir arguments of a direct call: absolute and relative paths,
\* with an embedded space, a "./" prefix, a trailing or doubled separator,
\* "." and ".." segments, the root and the empty text.
InstallDirArgs ==
    { DefaultInstallDir,
      <<"/", "w", " ", "s">>,
      <<"r">>,
      <<".", "/", "r">>,
      <<".", "/", "r", " ", "s", "/", "t">>,
      <<>>,
      <<"/">>,
      <<"/", "a", "/">>,
      <<"a", "/", "/", "b">>,
      <<".", ".", "/", "a">>,
      <<"/", "a", "/", ".", "/", "b">>,
      <<"/", "a", "/", ".", ".", "/", "b">> }

\* The compilerPath arguments of a direct call: the installDir arguments and
\* paths as the tool cache returns them.
CompilerPathArgs ==
    InstallDirArgs
    \cup { <<"/", "c", "/", "p">>, <<"/", "t", "c", "/", "x", "c", "8", "/">>,
           <<".">> }

\* The direct calls of the exported functions.
FnCalls ==
    { [fn |-> "isPackageInstalled", result |-> r] : r \in DpkgOutcomes }
    \cup { [fn |-> "getDownloadUrl", compiler |-> c, version |-> v] :
             c \in CompilerArgs, v \in VersionArgs }
    \cup { [fn |-> "getCompilerPath", installDir |-> d, compiler |-> c, version |-> v] :
             d \in InstallDirArgs, c \in CompilerArgs, v \in VersionArgs }
    \cup { [fn |-> "getBinPath", compilerPath |-> cp] : cp \in CompilerPathArgs }

\* What a function returned.
Returned(v) == [called |-> TRUE, ok |-> TRUE, val |-> v]

\* The Error a function threw.
Threw(e) == [called |-> TRUE, ok |-> FALSE, err |-> e]

FnInit ==
    /\ ProcsIdle
    /\ toolCache = {}
    /\ fnCall \in FnCalls
    /\ fnResult = NotCalled

\* isPackageInstalled(packageName), lines 156-166
CallIsPackageInstalled ==
    /\ fnCall.fn = "isPackageInstalled"
    /\ fnResult = NotCalled
    /\ fnResult' = Returned(isPackageInstalled(fnCall.result))
    /\ UNCHANGED <<fnCall, pc, env, locals, pathAdded, outputs, failed, calls, toolCache>>

\* getDownloadUrl(compiler, version), lines 216-238
CallGetDownloadUrl ==
    /\ fnCall.fn = "getDownloadUrl"
    /\ fnResult = NotCalled
    /\ LET r == getDownloadUrl(fnCall.compiler, fnCall.version)
       IN fnResult' = IF r.ok THEN Returned(r.val) ELSE Threw(r.err)
    /\ UNCHANGED <<fnCall, pc, env, locals, pathAdded, outputs, failed, calls, toolCache>>

\* getCompilerPath(installDir, compiler, version), lines 243-246
CallGetCompilerPath ==
    /\ fnCall.fn = "getCompilerPath"
    /\ fnResult = NotCalled
    /\ fnResult' = Returned(getCompilerPath(fnCall.installDir, fnCall.compiler,
                                            fnCall.version))
    /\ UNCHANGED <<fnCall, pc, env, locals, pathAdded, outputs, failed, calls, toolCache>>

\* getBinPath(compilerPath), lines 251-253
CallGetBinPath ==
    /\ fnCall.fn = "getBinPath"
    /\ fnResult = NotCalled
    /\ fnResult' = Returned(getBinPath(fnCall.compilerPath))
    /\ UNCHANGED <<fnCall, pc, env, locals, pathAdded, outputs, failed, calls, toolCache>>

FnNext ==
    \/ CallIsPackageInstalled
    \/ CallGetDownloadUrl
    \/ CallGetCompilerPath
    \/ CallGetBinPath

FnSpec == FnInit /\ [][FnNext]_vars

\* ------------------------------------------------------------------ two steps at the same time

\* Two jobs that share a tool cache execute run() at the same time: nothing
\* in run() waits for another process, so the steps of the two interleave
\* freely.  Both are started for the same compiler and version (one of them
\* possibly in capitals), and on their machine only the first required
\* package can be missing.
ConcEnvs ==
    { e \in Envs : /\ ToLowerCase(e.compiler) = XC16
                   /\ e.version = V310
                   /\ e.installDir = <<>> }

ConcStart(p) ==
    /\ ValidateInput(p)
    /\ env'[p] \in ConcEnvs

ConcCheckPackage(p) ==
    /\ CheckPackage(p)
    /\ \A i \in DOMAIN missingPackages'[p] :
          missingPackages'[p][i] = REQUIRED_PACKAGES[1]

ConcNext ==
    \E p \in Procs :
        \/ ConcStart(p)
        \/ CacheLookup(p)
        \/ ConcCheckPackage(p)
        \/ AddArchitecture(p)
        \/ AptUpdate(p)
        \/ AptInstall(p)
        \/ Download(p)
        \/ Chmod(p)
        \/ EnsureInstallDir(p)
        \/ RunInstaller(p)
        \/ Verify(p)
        \/ CacheDir(p)

ConcSpec == Init /\ [][ConcNext]_vars

\* ------------------------------------------------------------------ reading the record of a run

Terminal == {"Success", "Failed"}

Running == {"find", "checkPkg", "addArch", "aptUpdate", "aptInstall", "download",
            "chmod", "ensureDir", "installer", "verify", "cacheDir"}

\* The positions in p's record of the calls of operation op.
CallsOf(p, op) == { i \in DOMAIN calls[p] : calls[p][i].op = op }

\* The inputs as core.getInput hands them to run.
CompilerInput(p) == Trim(env[p].compiler)
VersionInput(p) == Trim(env[p].version)
InstallDirInput(p) ==
    IF Trim(env[p].installDir) # <<>> THEN Trim(env[p].installDir)
    ELSE <<"/", "o", "p", "t", "/", "m", "i", "c", "r", "o", "c", "h", "i", "p">>

\* The lower-case form of an identifier, letter by letter.
UpperToLower ==
    { <<"X", "x">>, <<"C", "c">>, <<"V", "v">>, <<"W", "w">>, <<"S", "s">>, <<"I", "i">> }

LowerCased(s) ==
    [i \in DOMAIN s |->
        IF \E ul \in UpperToLower : ul[1] = s[i]
          THEN (CHOOSE ul \in UpperToLower : ul[1] = s[i])[2]
          ELSE s[i]]

AllowedCompilers ==
    { <<"x", "c", "8">>, <<"x", "c", "1", "6">>, <<"x", "c", "3", "2">> }

AllowedText ==
    <<"x", "c", "8", ",", " ", "x", "c", "1", "6", ",", " ", "x", "c", "3", "2">>

\* D of the claims: join(install-dir input or default, lowercase(compiler), "v" + version)
ExpectedInstallDir(p) ==
    PathJoin(<<InstallDirInput(p), LowerCased(CompilerInput(p)),
               <<"v">> \o VersionInput(p)>>)

ExpectedBinDir(p) == PathJoin(<<ExpectedInstallDir(p), <<"b", "i", "n">>>>)

\* ------------------------------------------------------------------ C1

\* The tool-cache lookup of p returned a non-empty path.
CacheHit(p) ==
    \E i \in CallsOf(p, "tc.find") : calls[p][i].ok /\ calls[p][i].ret # <<>>

\* C1: whenever the tool-cache lookup returns a non-empty path P, the run
\* appends join(P, "bin") to PATH, emits install-dir = P and
\* compiler-path = join(P, "bin"), ends in Success, and makes no later call:
\* the lookup is the only external call of the run.
C1_CacheHitPublishesAndStops ==
    \A p \in Procs :
        \A i \in CallsOf(p, "tc.find") :
            (calls[p][i].ok /\ calls[p][i].ret # <<>>) =>
                LET P == calls[p][i].ret
                    bin == PathJoin(<<P, <<"b", "i", "n">>>>)
                IN /\ pc[p] = "Success"
                   /\ pathAdded[p] = <<bin>>
                   /\ outputs[p] = << <<"install-dir", P>>, <<"compiler-path", bin>> >>
                   /\ failed[p] = <<>>
                   /\ Len(calls[p]) = 1

C1_Witness ==
    \E p \in Procs : CacheHit(p) /\ pc[p] = "Success" /\ Len(pathAdded[p]) = 1

\* ------------------------------------------------------------------ C2

\* p failed with the invalid-compiler message, which names the offending
\* value and the allowed set.
InvalidCompilerFailure(p) ==
    /\ pc[p] = "Failed"
    /\ Len(failed[p]) = 1
    /\ Includes(failed[p][1], <<"Invalid compiler type: ">> \o CompilerInput(p))
    /\ Includes(failed[p][1], AllowedText)

\* C2 as stated: the run fails with the invalid-compiler message if and only
\* if the lower-cased compiler input is not an allowed identifier.
C2_AsStated ==
    \A p \in Procs :
        pc[p] # "idle" =>
            (InvalidCompilerFailure(p)
                <=> LowerCased(CompilerInput(p)) \notin AllowedCompilers)

\* C2, amended: when both required inputs are supplied (non-empty), the run
\* fails with the invalid-compiler message if and only if the lower-cased
\* compiler input is not an allowed identifier; when a required input is
\* missing, input reading fails first and the message is not the
\* invalid-compiler one.  A run that failed so made no external call, and no
\* valid identifier, in any letter case, fails so.
C2_InvalidCompilerIffNotAllowed ==
    \A p \in Procs :
        pc[p] # "idle" =>
            /\ InvalidCompilerFailure(p)
                 <=> /\ env[p].compiler # <<>>
                     /\ env[p].version # <<>>
                     /\ LowerCased(CompilerInput(p)) \notin AllowedCompilers
            /\ InvalidCompilerFailure(p) => calls[p] = <<>>
            /\ (env[p].compiler = <<>> \/ env[p].version = <<>>) =>
                 /\ pc[p] = "Failed"
                 /\ calls[p] = <<>>
                 /\ ~Includes(failed[p][1], <<"Invalid compiler type: ">>)

C2_Witness ==
    \E p \in Procs :
        InvalidCompilerFailure(p) /\ CompilerInput(p) = <<"x", "c", "7">>

\* ------------------------------------------------------------------ C3

\* Every external call that was started completes with some outcome, and
\* the continuation of run then executes.
FairSpec == Spec /\ \A p \in Procs : WF_vars(RunStep(p))

\* No process is stopped by an unhandled error, and core.setFailed has been
\* called exactly once in Failed and not at all anywhere else.
NoEscape ==
    \A p \in Procs :
        /\ pc[p] \in {"idle"} \cup Running \cup Terminal
        /\ pc[p] = "Failed" => Len(failed[p]) = 1
        /\ pc[p] # "Failed" => failed[p] = <<>>
        /\ pc[p] = "Success" => Len(pathAdded[p]) = 1

\* C3: run never lets an exception escape.  Whatever the external calls do,
\* a process is idle, at a step of run or in one of the two terminal states,
\* never stopped by an unhandled error; core.setFailed is called exactly once
\* in a Failed run and never in any other; and every run that passed input
\* validation reaches Success or Failed.
C3_NoEscapeOneTerminal ==
    /\ []NoEscape
    /\ \A p \in Procs : (pc[p] \in Running) ~> (pc[p] \in Terminal)

C3_Witness ==
    \E p \in Procs :
        /\ pc[p] = "Failed"
        /\ \E i \in CallsOf(p, "tc.cacheDir") : ~calls[p][i].ok

\* ------------------------------------------------------------------ C4

\* The tool-cache lookup of p returned the empty string.
CacheMiss(p) ==
    \E i \in CallsOf(p, "tc.find") : calls[p][i].ok /\ calls[p][i].ret = <<>>

\* C4: on a cache miss the installation directory is D = join(install-dir
\* input or /opt/microchip, lowercase(compiler), "v" + version).  Once
\* prerequisites, download, installer and verification succeeded, the
\* cache-persist operation is called exactly once, with exactly
\* (D, compiler, version); when it completes the run is in Success, with
\* join(D, "bin") appended to PATH and the outputs install-dir = D and
\* compiler-path = join(D, "bin").
C4_CacheMissSuccess ==
    \A p \in Procs :
        LET D == ExpectedInstallDir(p)
            bin == ExpectedBinDir(p)
            verified ==
                \E k \in CallsOf(p, "fs.existsSync") :
                    /\ calls[p][k].args = <<bin>>
                    /\ calls[p][k].ret = <<"true">>
        IN /\ \A i \in CallsOf(p, "tc.cacheDir") :
                /\ calls[p][i].args = <<D, CompilerInput(p), VersionInput(p)>>
                /\ calls[p][i].ok <=> pc[p] = "Success"
           /\ (CacheMiss(p) /\ verified /\ pc[p] \in Terminal) =>
                Cardinality(CallsOf(p, "tc.cacheDir")) = 1
           /\ (CacheMiss(p) /\ pc[p] = "Success") =>
                /\ verified
                /\ Cardinality(CallsOf(p, "tc.cacheDir")) = 1
                /\ pathAdded[p] = <<bin>>
                /\ outputs[p] = << <<"install-dir", D>>, <<"compiler-path", bin>> >>

C4_Witness ==
    \E p \in Procs :
        /\ CacheMiss(p)
        /\ pc[p] = "Success"
        /\ CompilerInput(p) = <<"X", "C", "1", "6">>
        /\ env[p].installDir = <<>>

\* ------------------------------------------------------------------ C5

\* Before position k of p's record, pkg was reported installed by its query
\* or was an argument of an apt-get install that completed.
PackageEnsuredBefore(p, pkg, k) ==
    \E i \in 1..(k - 1) :
        \/ /\ calls[p][i].op = "isPackageInstalled"
           /\ calls[p][i].args = <<pkg>>
           /\ calls[p][i].ret = <<"true">>
        \/ /\ calls[p][i].op = "sudo"
           /\ calls[p][i].ok
           /\ Len(calls[p][i].args) > 4
           /\ SubSeq(calls[p][i].args, 1, 4)
                = << <<"apt-get">>, <<"install">>, <<"-y">>, <<"-qq">> >>
           /\ \E j \in 5..Len(calls[p][i].args) : calls[p][i].args[j] = pkg

RequiredPackageNames ==
    { <<"l", "i", "b", "c", "6", ":", "i", "3", "8", "6">>,
      <<"l", "i", "b", "x", "1", "1", "-", "6", ":", "i", "3", "8", "6">>,
      <<"l", "i", "b", "x", "e", "x", "t", "6", ":", "i", "3", "8", "6">>,
      <<"l", "i", "b", "s", "t", "d", "c", "+", "+", "6", ":", "i", "3", "8", "6">>,
      <<"l", "i", "b", "e", "x", "p", "a", "t", "1", ":", "i", "3", "8", "6">> }

\* C5: in every run in which the installer is executed, each of the five
\* required packages was, earlier in the run, reported installed by its
\* query or included in a batched privileged install that completed.
C5_PrerequisitesBeforeInstaller ==
    \A p \in Procs :
        \A k \in CallsOf(p, "installer") :
            \A pkg \in RequiredPackageNames : PackageEnsuredBefore(p, pkg, k)

C5_Witness ==
    \E p \in Procs :
        /\ CallsOf(p, "installer") # {}
        /\ \E i \in CallsOf(p, "sudo") : Len(calls[p][i].args) = 6
        /\ \E i \in CallsOf(p, "isPackageInstalled") : calls[p][i].ret = <<"true">>

\* ------------------------------------------------------------------ C6

\* Position k of p's record is the existence check of the expected binary
\* directory, made after the installer completed.
IsVerifyCheck(p, k) ==
    /\ calls[p][k].op = "fs.existsSync"
    /\ calls[p][k].args = <<ExpectedBinDir(p)>>
    /\ \E i \in 1..(k - 1) : calls[p][i].op = "installer" /\ calls[p][i].ok

C7_DownloadFailure ==
    \A p \in Procs :
        \A i \in CallsOf(p, "tc.downloadTool") :
            ~calls[p][i].ok =>
                /\ pc[p] = "Failed"
                /\ i = Len(calls[p])
                /\ Len(failed[p]) = 1
                /\ StartsWith(failed[p][1],
                       <<"Failed to download installer from ">> \o calls[p][i].args[1])
                /\ Includes(failed[p][1],
                       <<"Please verify that version ">> \o VersionInput(p))
                /\ Includes(failed[p][1], <<"Error: ">> \o calls[p][i].ret)
                /\ calls[p][i].ret # <<>>
                /\ CallsOf(p, "chmod") = {}
                /\ CallsOf(p, "installer") = {}
                /\ CallsOf(p, "tc.cacheDir") = {}

C7_Witness ==
    \E p \in Procs :
        /\ pc[p] = "Failed"
        /\ \E i \in CallsOf(p, "tc.downloadTool") : ~calls[p][i].ok

\* ------------------------------------------------------------------ C8

\* C8 as stated: any thrown error while marking the installer executable,
\* creating the base install directory or running the installer ends the run
\* Failed with a message that starts with "Installation failed.".
C8_AsStated ==
    \A p \in Procs :
        \A i \in CallsOf(p, "chmod") \cup CallsOf(p, "fs.mkdirSync")
                 \cup CallsOf(p, "installer") :
            ~calls[p][i].ok =>
                /\ pc[p] = "Failed"
                /\ StartsWith(failed[p][1],
                       <<"Installation failed. The installer may require sudo privileges or ">>)

\* C8, amended: a failure of the installer subprocess (a thrown error, a
\* non-zero exit included) is wrapped into the InstallationFailed error,
\* whose message starts with "Installation failed.", mentions the possible
\* privilege and version-availability causes and ends with the cause, and
\* the run ends Failed; a failure of chmod or of creating the base install
\* directory also ends the run Failed, but with the message of the
\* underlying error as it is.
C8_InstallerFailureWrapped ==
    \A p \in Procs :
        /\ \A i \in CallsOf(p, "installer") :
             ~calls[p][i].ok =>
                 /\ pc[p] = "Failed"
                 /\ i = Len(calls[p])
                 /\ failed[p] =
                      << <<"Installation failed. The installer may require sudo privileges or ",
                           "the version may not be available. Error: ">>
                         \o calls[p][i].ret >>
        /\ \A i \in CallsOf(p, "chmod") \cup CallsOf(p, "fs.mkdirSync") :
             ~calls[p][i].ok =>
                 /\ pc[p] = "Failed"
                 /\ i = Len(calls[p])
                 /\ failed[p] = <<calls[p][i].ret>>

C8_Witness ==
    \E p \in Procs :
        /\ pc[p] = "Failed"
        /\ \E i \in CallsOf(p, "installer") : ~calls[p][i].ok

\* ------------------------------------------------------------------ C9

\* C9: if installPrerequisites raises (a privileged command failed), the run
\* ends Failed with exactly that error's message, "Failed to install
\* prerequisites: " followed by the cause, and no download, chmod, installer
\* or cache-persist call is made in that run.
C9_PrerequisiteFailureAborts ==
    \A p \in Procs :
        \A i \in CallsOf(p, "sudo") :
            ~calls[p][i].ok =>
                /\ pc[p] = "Failed"
                /\ i = Len(calls[p])
                /\ failed[p] = << <<"Failed to install prerequisites: ">> \o calls[p][i].ret >>
                /\ CallsOf(p, "tc.downloadTool") = {}
                /\ CallsOf(p, "chmod") = {}
                /\ CallsOf(p, "installer") = {}
                /\ CallsOf(p, "tc.cacheDir") = {}

C9_Witness ==
    \E p \in Procs :
        /\ pc[p] = "Failed"
        /\ \E i \in CallsOf(p, "sudo") :
             ~calls[p][i].ok /\ calls[p][i].args[2] = <<"install">>

\* ------------------------------------------------------------------ C10

\* C10: the installer is executed at most once per run; its executable is the
\* path the download returned, a chmod +x of that path completed before it,
\* and its arguments are exactly --mode unattended --netservername localhost
\* --prefix D; before it the base install directory was checked, and it was
\* created (recursively, successfully) if and only if the check said it did
\* not exist; only the base directory is ever created, never D.
C10_InstallerInvocation ==
    \A p \in Procs :
        /\ Cardinality(CallsOf(p, "installer")) <= 1
        /\ \A k \in CallsOf(p, "installer") :
             /\ \E d \in CallsOf(p, "tc.downloadTool") :
                  /\ d < k
                  /\ calls[p][d].ok
                  /\ calls[p][d].ret = calls[p][k].args[1]
             /\ \E c \in CallsOf(p, "chmod") :
                  /\ c < k
                  /\ calls[p][c].ok
                  /\ calls[p][c].args = << <<"+x">>, calls[p][k].args[1] >>
             /\ Tail(calls[p][k].args)
                  = << <<"--mode">>, <<"unattended">>, <<"--netservername">>,
                       <<"localhost">>, <<"--prefix">>, ExpectedInstallDir(p) >>
             /\ \E x \in 1..(k - 1) :
                  /\ calls[p][x].op = "fs.existsSync"
                  /\ calls[p][x].args = <<InstallDirInput(p)>>
                  /\ (calls[p][x].ret = <<"false">>)
                       <=> \E m \in CallsOf(p, "fs.mkdirSync") : m < k /\ calls[p][m].ok
        /\ \A m \in CallsOf(p, "fs.mkdirSync") :
             /\ calls[p][m].args = <<InstallDirInput(p), <<"recursive">>>>
             /\ calls[p][m].args[1] # ExpectedInstallDir(p)

C10_Witness ==
    \E p \in Procs :
        /\ \E k \in CallsOf(p, "installer") : calls[p][k].ok
        /\ \E m \in CallsOf(p, "fs.mkdirSync") : calls[p][m].ok
        /\ env[p].installDir # <<>>

\* ------------------------------------------------------------------ C11

\* The tool-cache entries an earlier run of the action stored through a
\* completed cacheDir for the compiler and version inputs of p: p itself has
\* stored nothing (yet) in its run.
StoredEarlierFor(p) ==
    { e \in toolCache :
        /\ e.name = CompilerInput(p)
        /\ e.version = VersionInput(p)
        /\ e.path = PathJoin(<<ToolCacheRoot, e.name, e.version, <<"x", "6", "4">>>>)
        /\ CallsOf(p, "tc.cacheDir") = {} }

\* C11: once a run ended in Success on the cache-miss path (its cacheDir
\* stored an entry for its compiler and version), every later run with the
\* same compiler and version inputs whose lookup returns gets the stored
\* path, ends in Success on the cache-hit path with that path published, and
\* makes no download and no installer call (the lookup is its only call).
C11_RepeatedRunsUseCache ==
    \A p \in Procs :
        \A e \in StoredEarlierFor(p) :
            \A i \in CallsOf(p, "tc.find") :
                calls[p][i].ok =>
                    /\ calls[p][i].ret = e.path
                    /\ pc[p] = "Success"
                    /\ outputs[p][1] = <<"install-dir", e.path>>
                    /\ CallsOf(p, "tc.downloadTool") = {}
                    /\ CallsOf(p, "installer") = {}
                    /\ Len(calls[p]) = 1

C11_Witness ==
    \E p \in Procs :
        /\ StoredEarlierFor(p) # {}
        /\ CacheHit(p)
        /\ pc[p] = "Success"
        /\ CompilerInput(p) = <<"X", "C", "1", "6">>

\* ------------------------------------------------------------------ C12

\* The positions in p's outputs at which the output called name was emitted.
OutputsNamed(p, name) == { i \in DOMAIN outputs[p] : outputs[p][i][1] = name }

\* C12: in every run that ended in Success, on the cache-hit path or after a
\* fresh install, PATH was appended exactly once, install-dir and
\* compiler-path were each emitted exactly once and nothing else was, the
\* compiler-path output is the directory appended to PATH, and it equals
\* join(install-dir output, "bin").
C12_OutputPathAgreement ==
    \A p \in Procs :
        pc[p] = "Success" =>
            /\ Len(pathAdded[p]) = 1
            /\ Len(outputs[p]) = 2
            /\ Cardinality(OutputsNamed(p, "install-dir")) = 1
            /\ Cardinality(OutputsNamed(p, "compiler-path")) = 1
            /\ \A i \in OutputsNamed(p, "install-dir") :
                 \A j \in OutputsNamed(p, "compiler-path") :
                     /\ outputs[p][j][2] = pathAdded[p][1]
                     /\ outputs[p][j][2]
                          = PathJoin(<<outputs[p][i][2], <<"b", "i", "n">>>>)

C12_Witness ==
    \E p \in Procs :
        /\ pc[p] = "Success"
        /\ CacheMiss(p)
        /\ env[p].installDir = <<"/", "w", " ", "s">>
        /\ Len(outputs[p]) = 2
        /\ Len(pathAdded[p]) = 1

\* ------------------------------------------------------------------ C13

\* isPackageInstalled was called directly and has returned or thrown.
PackageQueried == fnCall.fn = "isPackageInstalled" /\ fnResult.called

\* The text contains two consecutive characters "i".
ContainsMarkerII(t) ==
    \E k \in 1..(Len(t) - 1) : t[k] = "i" /\ t[k + 1] = "i"

IsPackageRow(t) ==
    /\ Len(t) >= 3
    /\ t[1] # " "
    /\ t[2] # " "
    /\ t[3] = " "

StateMarker(t) == <<t[1], t[2]>>

\* C14 as stated: isPackageInstalled returns false for every query that
\* exits 0 and whose state marker is not "ii", whatever the rest of the row
\* is.
C14_AsStated ==
    ( /\ PackageQueried
      /\ ~fnCall.result.threw
      /\ fnCall.result.exitCode = 0
      /\ IsPackageRow(fnCall.result.stdout)
      /\ StateMarker(fnCall.result.stdout) # <<"i", "i">> )
        => (fnResult.ok /\ fnResult.val = FALSE)

\* ------------------------------------------------------------------ C15

\* installPrerequisites is executing in p: the package loop or one of the
\* privileged commands.
InPrerequisites == {"checkPkg", "addArch", "aptUpdate", "aptInstall"}

\* The positions in p's record of the queries of package pkg.
QueriesOf(p, pkg) ==
    { i \in CallsOf(p, "isPackageInstalled") : calls[p][i].args = <<pkg>> }

\* Every one of the five required packages was queried by p and reported
\* installed.
AllReportedInstalled(p) ==
    \A pkg \in RequiredPackageNames :
        \E i \in QueriesOf(p, pkg) : calls[p][i].ret = <<"true">>

\* C15: when all five required packages are reported installed,
\* installPrerequisites has queried each package exactly once, has run no
\* privileged command at all, and has returned normally: the run is past it
\* and, if it failed, failed in a later call.
C15_NoOpPath ==
    \A p \in Procs :
        /\ \A pkg \in RequiredPackageNames : Cardinality(QueriesOf(p, pkg)) <= 1
        /\ AllReportedInstalled(p) =>
             /\ \A pkg \in RequiredPackageNames : Cardinality(QueriesOf(p, pkg)) = 1
             /\ Cardinality(CallsOf(p, "isPackageInstalled")) = 5
             /\ CallsOf(p, "sudo") = {}
             /\ pc[p] \notin InPrerequisites
             /\ pc[p] = "Failed" =>
                  calls[p][Len(calls[p])].op # "isPackageInstalled"

C15_Witness ==
    \E p \in Procs :
        /\ AllReportedInstalled(p)
        /\ CallsOf(p, "sudo") = {}
        /\ \E i \in CallsOf(p, "tc.downloadTool") : calls[p][i].ok

\* ------------------------------------------------------------------ C16

\* The fixed list order of the required packages.
RequiredPackageList ==
    << <<"l", "i", "b", "c", "6", ":", "i", "3", "8", "6">>,
       <<"l", "i", "b", "x", "1", "1", "-", "6", ":", "i", "3", "8", "6">>,
       <<"l", "i", "b", "x", "e", "x", "t", "6", ":", "i", "3", "8", "6">>,
       <<"l", "i", "b", "s", "t", "d", "c", "+", "+", "6", ":", "i", "3", "8", "6">>,
       <<"l", "i", "b", "e", "x", "p", "a", "t", "1", ":", "i", "3", "8", "6">> >>

\* The packages reported not installed to p, in the fixed list order.
ReportedMissing(p) ==
    SelectSeq(RequiredPackageList,
              LAMBDA pkg : \E i \in QueriesOf(p, pkg) : calls[p][i].ret = <<"false">>)

\* All five queries of p have been made.
AllQueried(p) == \A pkg \in RequiredPackageNames : QueriesOf(p, pkg) # {}

\* The privileged commands p ran, in order.
SudoCalls(p) == SelectSeq(calls[p], LAMBDA c : c.op = "sudo")

\* The privileged sequence for the packages reported missing to p.
PrivilegedSequence(p) ==
    << << <<"dpkg">>, <<"--add-architecture">>, <<"i386">> >>,
       << <<"apt-get">>, <<"update">>, <<"-qq">> >>,
       << <<"apt-get">>, <<"install">>, <<"-y">>, <<"-qq">> >> \o ReportedMissing(p) >>

\* C16: when at least one required package is reported not installed,
\* installPrerequisites runs sudo dpkg --add-architecture i386, then sudo
\* apt-get update -qq, then one sudo apt-get install -y -qq whose package
\* arguments are exactly the packages reported missing, in the fixed list
\* order.  The privileged commands run so far are always the first ones of
\* that sequence, each run once, none before all five queries were made and
\* none when nothing is missing; each is started once the one before it
\* completed, and installPrerequisites returns only after all three completed.
C16_InstallPath ==
    \A p \in Procs :
        LET ran == SudoCalls(p)
            expected == PrivilegedSequence(p)
        IN /\ Len(ran) <= 3
           /\ \A k \in DOMAIN ran : ran[k].args = expected[k]
           /\ \A k \in DOMAIN ran : k < Len(ran) => ran[k].ok
           /\ ran # <<>> =>
                /\ AllQueried(p)
                /\ ReportedMissing(p) # <<>>
                /\ \A i \in CallsOf(p, "isPackageInstalled") :
                     \A j \in CallsOf(p, "sudo") : i < j
           /\ ( /\ AllQueried(p)
                /\ ReportedMissing(p) # <<>> ) =>
                /\ pc[p] # "checkPkg"
                /\ (\A k \in DOMAIN ran : ran[k].ok) =>
                     \/ pc[p] = "addArch" /\ Len(ran) = 0
                     \/ pc[p] = "aptUpdate" /\ Len(ran) = 1
                     \/ pc[p] = "aptInstall" /\ Len(ran) = 2
                     \/ pc[p] \notin InPrerequisites /\ Len(ran) = 3

C16_Witness ==
    \E p \in Procs :
        /\ Len(SudoCalls(p)) = 3
        /\ \A k \in 1..3 : SudoCalls(p)[k].ok
        /\ ReportedMissing(p)
             = << <<"l", "i", "b", "x", "1", "1", "-", "6", ":", "i", "3", "8", "6">>,
                  <<"l", "i", "b", "e", "x", "p", "a", "t", "1", ":", "i", "3", "8", "6">> >>

\* ------------------------------------------------------------------ C17

\* C17: a failure of any of the three privileged commands is re-raised as one
\* error whose message is "Failed to install prerequisites: " followed by the
\* underlying cause (the message of a thrown Error, the text of any other
\* thrown value); the commands before it had completed, the commands after it
\* in the sequence are not executed, and no compensating command is issued:
\* the failing command is the last call made.
C17_PrerequisiteFailure ==
    \A p \in Procs :
        LET ran == SudoCalls(p)
        IN \A k \in DOMAIN ran :
             ~ran[k].ok =>
                 /\ k = Len(ran)
                 /\ \A j \in 1..(k - 1) : ran[j].ok
                 /\ ran[k].args = PrivilegedSequence(p)[k]
                 /\ calls[p][Len(calls[p])] = ran[k]
                 /\ ran[k].ret # <<>>
                 /\ pc[p] = "Failed"
                 /\ Len(failed[p]) = 1
                 /\ StartsWith(failed[p][1], <<"Failed to install prerequisites: ">>)
                 /\ failed[p][1] = <<"Failed to install prerequisites: ">> \o ran[k].ret

C17_Witness ==
    \E p \in Procs :
        /\ Len(SudoCalls(p)) = 2
        /\ SudoCalls(p)[1].ok
        /\ ~SudoCalls(p)[2].ok
        /\ SudoCalls(p)[2].ret = <<"thrown value">>
        /\ pc[p] = "Failed"

\* ------------------------------------------------------------------ C18

\* getDownloadUrl was called directly and has returned or thrown.
UrlRequested == fnCall.fn = "getDownloadUrl" /\ fnResult.called

BaseUrlText ==
    <<"https://ww1.microchip.com/downloads/aemDocuments/documents/DEV/ProductDocuments/SoftwareTools">>

\* C18: for every version text v and every letter case of the identifier,
\* getDownloadUrl returns BASE/xc8-v{v}-full-install-linux-x64-installer.run
\* for xc8, BASE/xc16-v{v}-full-install-linux64-installer.run (no x64 token)
\* for xc16 and BASE/xc32-v{v}-full-install-linux-x64-installer.run for xc32:
\* the result depends on the identifier only through its lower-case form and
\* holds the version as it was given.
C18_DownloadUrl ==
    UrlRequested =>
        LET lower == LowerCased(fnCall.compiler)
            v == fnCall.version
        IN /\ lower = <<"x", "c", "8">> =>
                fnResult = [called |-> TRUE, ok |-> TRUE,
                            val |-> BaseUrlText \o <<"/", "xc8-", "v">> \o v
                                    \o <<"-full-install-linux-x64-installer.run">>]
           /\ lower = <<"x", "c", "1", "6">> =>
                fnResult = [called |-> TRUE, ok |-> TRUE,
                            val |-> BaseUrlText \o <<"/", "xc16-", "v">> \o v
                                    \o <<"-full-install-linux64-installer.run">>]
           /\ lower = <<"x", "c", "3", "2">> =>
                fnResult = [called |-> TRUE, ok |-> TRUE,
                            val |-> BaseUrlText \o <<"/", "xc32-", "v">> \o v
                                    \o <<"-full-install-linux-x64-installer.run">>]

C18_Witness ==
    /\ UrlRequested
    /\ fnCall.compiler = <<"X", "c", "1", "6">>
    /\ fnCall.version = <<"2", ".", "1", "0">>
    /\ fnResult.ok

\* ------------------------------------------------------------------ C19

\* C19: for every identifier whose lower-case form is not xc8, xc16 or xc32
\* (the empty text and "xc7" included), getDownloadUrl returns no URL: it
\* throws an Error whose message is "Unsupported compiler: " followed by the
\* identifier as it was given (not lower-cased) and the three allowed
\* identifiers.
C19_UnsupportedCompiler ==
    UrlRequested =>
        (LowerCased(fnCall.compiler) \notin AllowedCompilers =>
            /\ ~fnResult.ok
            /\ fnResult.err.isError
            /\ fnResult.err.message
                 = <<"Unsupported compiler: ">> \o fnCall.compiler
                   \o <<". Must be one of: xc8, xc16, xc32">>)

C19_Witness ==
    /\ UrlRequested
    /\ fnCall.compiler = <<"X", "C", "7">>
    /\ ~fnResult.ok

\* ------------------------------------------------------------------ C20

\* getCompilerPath was called directly and has returned.
CompilerPathRequested == fnCall.fn = "getCompilerPath" /\ fnResult.called

\* A path written without a trailing or doubled separator and without dots:
\* nothing in it for normalization to change.
PlainPath(b) ==
    /\ b # <<>>
    /\ b[Len(b)] # "/"
    /\ \A i \in DOMAIN b : b[i] # "."
    /\ \A i \in 1..(Len(b) - 1) : ~(b[i] = "/" /\ b[i + 1] = "/")

\* C20: getCompilerPath(base, compiler, version) is the path
\* base/lowercase(compiler)/v{version}.  For a plain base, absolute or
\* relative, with or without embedded spaces, it is that text character for
\* character; a "./" prefix of a relative base is dropped; a trailing
\* separator of the base (the root included) does not double; an empty base
\* stands for the current directory.  For every base it is the join of the
\* base, the lower-cased identifier and "v" + version, so it does not depend
\* on the letter case of the identifier.
C20_CompilerPath ==
    CompilerPathRequested =>
        LET base == fnCall.installDir
            lower == LowerCased(fnCall.compiler)
            tail == lower \o <<"/", "v">> \o fnCall.version
            R == fnResult.val
        IN /\ fnResult.ok
           /\ R = PathJoin(<<base, lower, <<"v">> \o fnCall.version>>)
           /\ lower # <<>> =>
                /\ PlainPath(base) => R = base \o <<"/">> \o tail
                /\ \A r \in InstallDirArgs :
                     (PlainPath(r) /\ r[1] # "/" /\ base = <<".", "/">> \o r) =>
                         R = r \o <<"/">> \o tail
                /\ \A r \in InstallDirArgs :
                     (PlainPath(r) /\ base = r \o <<"/">>) => R = r \o <<"/">> \o tail
                /\ base = <<"/">> => R = <<"/">> \o tail
                /\ base = <<>> => R = tail

C20_Witness ==
    /\ CompilerPathRequested
    /\ fnCall.installDir = <<".", "/", "r", " ", "s", "/", "t">>
    /\ fnCall.compiler = <<"X", "C", "3", "2">>
    /\ fnCall.version = <<"3", ".", "1", "0">>
    /\ fnResult.val = <<"r", " ", "s", "/", "t", "/", "x", "c", "3", "2", "/",
                        "v", "3", ".", "1", "0">>

\* ------------------------------------------------------------------ C21

\* getBinPath was called directly and has returned.
BinPathRequested == fnCall.fn = "getBinPath" /\ fnResult.called

SlashBin == <<"/", "b", "i", "n">>

ResolvedPaths ==
    { << <<".", "/", "r">>, <<"r">> >>,
      << <<".", "/", "r", " ", "s", "/", "t">>, <<"r", " ", "s", "/", "t">> >>,
      << <<"a", "/", "/", "b">>, <<"a", "/", "b">> >>,
      << <<".", ".", "/", "a">>, <<".", ".", "/", "a">> >>,
      << <<"/", "a", "/", ".", "/", "b">>, <<"/", "a", "/", "b">> >>,
      << <<"/", "a", "/", ".", ".", "/", "b">>, <<"/", "b">> >> }

StepOf(p, c) ==
    CASE c.op = "tc.find" -> 1
      [] c.op = "isPackageInstalled" -> 2
      [] c.op = "sudo" -> 3
      [] c.op = "tc.downloadTool" -> 4
      [] c.op = "chmod" -> 5
      [] c.op = "fs.existsSync" /\ c.args = <<InstallDirInput(p)>> -> 6
      [] c.op = "fs.mkdirSync" -> 7
      [] c.op = "installer" -> 8
      [] c.op = "fs.existsSync" /\ c.args = <<ExpectedBinDir(p)>> -> 9
      [] c.op = "tc.cacheDir" -> 10
      [] OTHER -> 0

\* A recorded call ended the run: it threw, or it is the bin-directory check
\* and found nothing.
StepFailed(p, c) ==
    \/ ~c.ok
    \/ StepOf(p, c) = 9 /\ c.ret = <<"false">>

\* Before position k of p's record there is a call of step n that completed
\* with the result ret.
CompletedBefore(p, k, n, ret) ==
    \E i \in 1..(k - 1) :
        /\ StepOf(p, calls[p][i]) = n
        /\ ~StepFailed(p, calls[p][i])
        /\ calls[p][i].ret = ret

\* Before position k there is a completed call of step n.
DoneBefore(p, k, n) ==
    \E i \in 1..(k - 1) :
        StepOf(p, calls[p][i]) = n /\ ~StepFailed(p, calls[p][i])

StoredEarlierIgnoringCase(p) ==
    { e \in toolCache :
        /\ LowerCased(e.name) = LowerCased(CompilerInput(p))
        /\ e.version = VersionInput(p)
        /\ e.path = PathJoin(<<ToolCacheRoot, e.name, e.version, <<"x", "6", "4">>>>)
        /\ CallsOf(p, "tc.cacheDir") = {} }

\* C23 as stated: the key of the tool-cache lookup and the key of the
\* tool-cache persist are the lower-cased identifier, so a run finds the
\* entry that an earlier run stored for the same version and for an
\* identifier that differs in letter case only.
C23_AsStated ==
    \A p \in Procs :
        /\ \A i \in CallsOf(p, "tc.find") :
             calls[p][i].args[1] = LowerCased(CompilerInput(p))
        /\ \A i \in CallsOf(p, "tc.cacheDir") :
             calls[p][i].args[2] = LowerCased(CompilerInput(p))
        /\ \A e \in StoredEarlierIgnoringCase(p) :
             \A i \in CallsOf(p, "tc.find") :
                 calls[p][i].ok => calls[p][i].ret = e.path

\* ------------------------------------------------------------------ C24

\* C24: if the cache persist throws after the installer succeeded and the
\* verification passed, the run ends Failed with the message of the
\* underlying error as it is, PATH is not modified and no output is emitted,
\* nothing is stored in the tool cache for the run's key by this run, and no
\* call follows the failed persist: nothing removes what the installer wrote.
C24_CachePersistFailure ==
    \A p \in Procs :
        \A i \in CallsOf(p, "tc.cacheDir") :
            ~calls[p][i].ok =>
                /\ \E k \in 1..(i - 1) : calls[p][k].op = "installer" /\ calls[p][k].ok
                /\ \E k \in 1..(i - 1) : IsVerifyCheck(p, k) /\ calls[p][k].ret = <<"true">>
                /\ pc[p] = "Failed"
                /\ failed[p] = <<calls[p][i].ret>>
                /\ calls[p][i].ret # <<>>
                /\ pathAdded[p] = <<>>
                /\ outputs[p] = <<>>
                /\ i = Len(calls[p])
                /\ \A e \in toolCache :
                     (e.name = CompilerInput(p) /\ e.version = VersionInput(p)) =>
                         e.path # PathJoin(<<ToolCacheRoot, e.name, e.version,
                                             <<"x", "6", "4">>>>)

C24_Witness ==
    \E p \in Procs :
        /\ pc[p] = "Failed"
        /\ \E i \in CallsOf(p, "tc.cacheDir") :
             ~calls[p][i].ok /\ calls[p][i].ret = <<"thrown value">>
        /\ failed[p] = << <<"thrown value">> >>
        /\ pathAdded[p] = <<>>

\* ------------------------------------------------------------------ C25

\* C25: in every run that ends in Failed, whichever step failed, nothing was
\* appended to PATH and neither output was emitted; the failure signal was
\* given exactly once, and it is given in no run that is not Failed.  While a
\* run is still executing its steps it has published nothing either.
C25_FailedPublishesNothing ==
    \A p \in Procs :
        /\ pc[p] = "Failed" =>
             /\ pathAdded[p] = <<>>
             /\ outputs[p] = <<>>
             /\ Len(failed[p]) = 1
        /\ pc[p] \in Running => (pathAdded[p] = <<>> /\ outputs[p] = <<>>)
        /\ failed[p] # <<>> => pc[p] = "Failed"

C25_Witness ==
    \E p \in Procs :
        /\ pc[p] = "Failed"
        /\ \E i \in CallsOf(p, "fs.existsSync") :
             /\ calls[p][i].args = <<ExpectedBinDir(p)>>
             /\ calls[p][i].ret = <<"false">>
        /\ pathAdded[p] = <<>>
        /\ outputs[p] = <<>>
        /\ Len(failed[p]) = 1

\* ------------------------------------------------------------------ C26

\* The tool-cache entries that an earlier run with the compiler, version and
\* install-dir inputs of p persisted after installing freshly: the directory
\* it installed into and handed to cacheDir is the one p's inputs give.
PersistedBySameInputs(p) ==
    { e \in StoredEarlierFor(p) : e.source = ExpectedInstallDir(p) }

\* C26 as stated: a successful run that hits the cache entry persisted by an
\* earlier fresh install with the same compiler, version and install-dir
\* inputs emits what that fresh install emitted (install-dir = D,
\* compiler-path = join(D, "bin"), with D the installation directory of those
\* inputs) and appends the same directory to PATH.
C26_AsStated ==
    \A p \in Procs :
        \A e \in PersistedBySameInputs(p) :
            (CacheHit(p) /\ pc[p] = "Success") =>
                /\ outputs[p] = << <<"install-dir", e.source>>,
                                   <<"compiler-path",
                                     PathJoin(<<e.source, <<"b", "i", "n">>>>)>> >>
                /\ pathAdded[p] = << PathJoin(<<e.source, <<"b", "i", "n">>>>) >>

\* ------------------------------------------------------------------ C27

\* The run of p read both required inputs: the allow-list check was made.
AllowListChecked(p) ==
    /\ pc[p] # "idle"
    /\ CompilerInput(p) # <<>>
    /\ VersionInput(p) # <<>>

\* The allow-list check of p's run rejected / accepted the compiler input.
RejectedByAllowList(p) ==
    /\ AllowListChecked(p)
    /\ pc[p] = "Failed"
    /\ calls[p] = <<>>
    /\ StartsWith(failed[p][1], <<"Invalid compiler type: ">>)

AcceptedByAllowList(p) == AllowListChecked(p) /\ ~RejectedByAllowList(p)

\* The installer URL of the run's inputs.
InstallerUrl(p) ==
    LET lower == LowerCased(CompilerInput(p))
    IN BaseUrlText
       \o (IF lower = <<"x", "c", "8">> THEN <<"/", "xc8-">>
           ELSE IF lower = <<"x", "c", "1", "6">> THEN <<"/", "xc16-">>
           ELSE <<"/", "xc32-">>)
       \o <<"v">> \o VersionInput(p)
       \o (IF lower = <<"x", "c", "1", "6">>
             THEN <<"-full-install-linux64-installer.run">>
             ELSE <<"-full-install-linux-x64-installer.run">>)

\* The prerequisite step of p's run is over and none of its commands failed.
PrerequisitesSucceeded(p) ==
    /\ AllQueried(p)
    /\ pc[p] \notin InPrerequisites
    /\ \A i \in CallsOf(p, "sudo") : calls[p][i].ok

\* C27: run's allow-list check accepts a compiler input exactly when
\* getDownloadUrl returns a URL for it.  So no run fails with "Unsupported
\* compiler", every run at the Download step has an allowed identifier, every
\* download is of the well-formed URL of the inputs, and every run that passed
\* validation, missed the cache and got through the prerequisites has
\* attempted that download exactly once.
C27_ValidationAgreesWithUrlBuilder ==
    \A p \in Procs :
        /\ AllowListChecked(p) =>
              (AcceptedByAllowList(p)
                 <=> getDownloadUrl(CompilerInput(p), VersionInput(p)).ok)
        /\ \A i \in DOMAIN failed[p] :
              ~StartsWith(failed[p][i], <<"Unsupported compiler: ">>)
        /\ pc[p] = "download" =>
              /\ AcceptedByAllowList(p)
              /\ LowerCased(CompilerInput(p)) \in AllowedCompilers
              /\ CallsOf(p, "tc.downloadTool") = {}
        /\ \A i \in CallsOf(p, "tc.downloadTool") :
              calls[p][i].args = <<InstallerUrl(p)>>
        /\ (AcceptedByAllowList(p) /\ CacheMiss(p) /\ PrerequisitesSucceeded(p)
               /\ pc[p] # "download") =>
              Cardinality(CallsOf(p, "tc.downloadTool")) = 1

C27_Witness ==
    \E p \in Procs :
        /\ CompilerInput(p) = <<"X", "C", "1", "6">>
        /\ AcceptedByAllowList(p)
        /\ CacheMiss(p)
        /\ PrerequisitesSucceeded(p)
        /\ Len(SudoCalls(p)) = 3
        /\ pc[p] = "chmod"
        /\ \E i \in CallsOf(p, "tc.downloadTool") :
             /\ calls[p][i].ok
             /\ calls[p][i].args
                  = << BaseUrlText \o <<"/", "xc16-", "v">> \o VersionInput(p)
                       \o <<"-full-install-linux64-installer.run">> >>

\* ------------------------------------------------------------------ C28

\* The value the installer of call c was given after --prefix.
PrefixOf(c) == c.args[Len(c.args)]

\* C28: run takes no lock and never looks the cache up again.  Also when
\* another invocation runs at the same time, each run looks the cache up
\* once, as its first call; after a miss, what it does depends on its own
\* inputs only: the installer gets --prefix D, cache persist gets the key
\* (compiler, version) of the inputs with D, a Success was reached through an
\* installer run and a cache persist of its own, and what it publishes is D
\* even if the other invocation has stored an entry for the key meanwhile.
\* So two interleaving invocations for the same inputs can both miss, both
\* execute the installer with the same --prefix and both persist the same key.
C28_NoGuardAgainstConcurrentInstalls ==
    \A p \in Procs :
        /\ CallsOf(p, "tc.find") \subseteq {1}
        /\ CacheMiss(p) =>
              /\ \A i \in CallsOf(p, "installer") :
                    /\ calls[p][i].args[Len(calls[p][i].args) - 1] = <<"--prefix">>
                    /\ PrefixOf(calls[p][i]) = ExpectedInstallDir(p)
              /\ \A i \in CallsOf(p, "tc.cacheDir") :
                    calls[p][i].args
                      = <<ExpectedInstallDir(p), CompilerInput(p), VersionInput(p)>>
              /\ pc[p] = "Success" =>
                    /\ \E i \in CallsOf(p, "installer") : calls[p][i].ok
                    /\ \E i \in CallsOf(p, "tc.cacheDir") : calls[p][i].ok
                    /\ outputs[p][1] = <<"install-dir", ExpectedInstallDir(p)>>
                    /\ pathAdded[p] = <<ExpectedBinDir(p)>>

\* Both invocations, started with the same inputs, missed the cache, executed
\* the installer with the same --prefix and persisted the same key.  No
\* entry is ever removed from the cache, so each looked the cache up before
\* the other persisted: the two runs overlapped.
C28_Witness ==
    \E p \in Procs : \E q \in Procs \ {p} :
        /\ env[p] = env[q]
        /\ CacheMiss(p) /\ CacheMiss(q)
        /\ \E i \in CallsOf(p, "installer") : \E j \in CallsOf(q, "installer") :
             /\ calls[p][i].ok /\ calls[q][j].ok
             /\ PrefixOf(calls[p][i]) = PrefixOf(calls[q][j])
             /\ PrefixOf(calls[p][i])
                  = <<"/", "o", "p", "t", "/", "m", "i", "c", "r", "o", "c", "h", "i", "p",
                      "/", "x", "c", "1", "6", "/", "v", "3", ".", "1", "0">>
        /\ \E i \in CallsOf(p, "tc.cacheDir") : \E j \in CallsOf(q, "tc.cacheDir") :
             /\ calls[p][i].ok /\ calls[q][j].ok
             /\ calls[p][i].args = calls[q][j].args
        /\ pc[p] = "Success" /\ pc[q] = "Success"
        /\ Cardinality(toolCache) = 1

====
